---- MODULE Spec2Model ----
(***************************************************************************)
(* gather-shop: the in-memory order store (store.py) and the handlers of   *)
(* main.py that create and pay orders, with the payment verifier           *)
(* (payment.py) and the fulfillment dispatcher (gelato.py) they await.     *)
(*                                                                         *)
(* Python dicts are objects: `heap` holds every order dict ever built, in  *)
(* allocation order, and `orders` (store._orders) maps an order id to the  *)
(* heap index of the dict stored under it.  A handler is one asyncio task; *)
(* it runs without interruption between two awaits that really suspend     *)
(* (the ledger request and the fulfillment request), so each action below  *)
(* is the code of a handler between two such points.                       *)
(***************************************************************************)
EXTENDS Integers, Sequences, FiniteSets, TLC

\* ---------------------------------------------------------------- bounds
MaxOrders == 2      \* order dicts built over a run
NumIds == 2         \* size of the id space _gen_id draws from (16^6 in the code)
NumReqs == 2        \* pay_order tasks that may be in flight together
NumTx == 2          \* distinct well-formed transaction ids
NumGelatoIds == 1   \* distinct order ids the fulfillment upstream hands out
NumCalls == 2       \* pricing-engine calls that may be in flight together
MaxPage == 4        \* the largest page number requested
MaxTicks == 2       \* advances of the clock over a run

\* ------------------------------------------------------------- constants
None == 0                       \* Python None (and a dict key that is absent: .get())
SATS_PER_BCH == 100000000
MICRO_PER_BCH == 1000000        \* amounts are decimal strings; the model keeps them in 1e-6 BCH

IdSpace == 1..NumIds
Reqs == 1..NumReqs
WellFormedTx == 1..NumTx
MalformedTx == -1               \* a string the 64-hex pattern rejects
TxIds == WellFormedTx \cup {MalformedTx}
GelatoIds == 1..NumGelatoIds

SHOP_BCH_ADDRESS == "shop"

VARIABLES
    heap,        \* Seq of order dicts, in allocation order
    orders,      \* store._orders: order id -> heap index, None when the key is absent
    api_key,     \* gelato.GELATO_API_KEY is set (read once at import)
    req,         \* the pay_order tasks in flight: position and locals
    last,        \* the response pay_order sent most recently
    paidBy,      \* history: per order dict, the tx ids of the pay_order calls that returned success
    cache,       \* products._cache: key -> entry {"d", "t"}
    now,         \* time.time()
    ticks,       \* how often the clock has advanced
    calls,       \* the pricing-engine calls in flight: position and locals
    vcase,       \* the latest verify_transaction call: arguments, ledger answer, result
    ptask,       \* the place_product_order task: position, locals and response
    pcase,       \* the latest direct call of a function: its name, arguments and result
    menu,        \* the get_products_for_menu task: the items built so far and the result
    upstream,    \* the fulfillment catalog: the sizes of the mug variants it has
    ocache       \* products._cache: the entries of the valid_options: and uid: keys

orderVars == <<heap, orders, api_key, req, last, paidBy>>
cacheVars == <<cache, now, ticks, calls>>
verifyVars == <<vcase>>
productVars == <<ptask>>
callVars == <<pcase>>
menuVars == <<menu>>
catalogVars == <<upstream, ocache>>
vars == <<heap, orders, api_key, req, last, paidBy, cache, now, ticks, calls, vcase, ptask, pcase, menu, upstream, ocache>>

\* ------------------------------------------------------------------ menu
\* get_item_price's "no such item" (None in the code; 0 is a real price, of size "small")
NoPrice == -1

FlavorPrice(f) == CASE f = "chocolate" -> 10000 [] f = "vanilla" -> 9000 [] OTHER -> NoPrice
SizePrice(s) == CASE s = "small" -> 0 [] s = "medium" -> 5000 [] OTHER -> NoPrice
ToppingPrice(t) == CASE t = "sprinkles" -> 1000 [] t = "caramel_drizzle" -> 2000 [] OTHER -> NoPrice

get_item_price(category, item_id) ==
    CASE category = "flavors" -> FlavorPrice(item_id)
      [] category = "sizes" -> SizePrice(item_id)
      [] category = "toppings" -> ToppingPrice(item_id)
      [] OTHER -> NoPrice

RECURSIVE SumToppings(_)
SumToppings(ts) ==
    IF ts = <<>> THEN 0 ELSE get_item_price("toppings", Head(ts)) + SumToppings(Tail(ts))

\* calculate_total: [ok, total]
calculate_total(flavor, size, toppings) ==
    IF \/ get_item_price("flavors", flavor) = NoPrice
       \/ get_item_price("sizes", size) = NoPrice
       \/ \E i \in 1..Len(toppings) : get_item_price("toppings", toppings[i]) = NoPrice
    THEN [ok |-> FALSE, total |-> None]
    ELSE [ok |-> TRUE,
          total |-> get_item_price("flavors", flavor) + get_item_price("sizes", size)
                    + SumToppings(toppings)]

\* the item ids of a cake category, in menu order; <<>> when there is no such category
CATEGORIES(category) ==
    CASE category = "flavors" -> <<"chocolate", "vanilla", "red_velvet", "lemon", "carrot">>
      [] category = "sizes" -> <<"small", "medium", "large">>
      [] category = "toppings" ->
           <<"sprinkles", "caramel_drizzle", "fresh_berries", "chocolate_shavings",
             "whipped_cream", "fondant_flowers", "edible_gold", "custom_text">>
      [] OTHER -> <<>>

is_cake_category(category) == category \in {"flavors", "sizes", "toppings"}

\* the ids of the items get_products_for_menu returns: CATALOG_CONFIG in its order
CatalogProducts == <<"t-shirt", "mug", "framed-print">>

ITEMS_PER_PAGE == 5

Max(a, b) == IF a >= b THEN a ELSE b
Min(a, b) == IF a <= b THEN a ELSE b

\* a page cut out without bringing the page number into range
paginate_unclamped(all_items, page) ==
    LET total_pages == Max(1, (Len(all_items) + ITEMS_PER_PAGE - 1) \div ITEMS_PER_PAGE)
        start == (page - 1) * ITEMS_PER_PAGE
    IN  [items |-> SubSeq(all_items, start + 1, Min(start + ITEMS_PER_PAGE, Len(all_items))),
         page |-> page, total_pages |-> total_pages,
         next |-> IF page < total_pages THEN page + 1 ELSE None]

\* The paging of get_category_items, which list_category_items repeats for the
\* products: (items, page, total_pages, next), next being the page number in
\* the next URL or None.  math.ceil(n / 5) is (n + 4) \div 5.
paginate(all_items, page) ==
    LET total_pages == Max(1, (Len(all_items) + ITEMS_PER_PAGE - 1) \div ITEMS_PER_PAGE)
        pg == Max(1, Min(page, total_pages))
        start == (pg - 1) * ITEMS_PER_PAGE
    IN  [items |-> SubSeq(all_items, start + 1, Min(start + ITEMS_PER_PAGE, Len(all_items))),
         page |-> pg, total_pages |-> total_pages,
         next |-> IF pg < total_pages THEN pg + 1 ELSE None]

get_category_items(category, page) == paginate(CATEGORIES(category), page)

\* GET /menu/{category}?page=N: the status code and the CategoryResponse
list_category_items(category, page) ==
    IF category = "products" THEN [code |-> 200, body |-> paginate(CatalogProducts, page)]
    ELSE IF ~is_cake_category(category) THEN [code |-> 404, body |-> paginate(<<>>, 1)]
    ELSE [code |-> 200, body |-> get_category_items(category, page)]

\* ----------------------------------------------------------------- store
\* create_cake_order, had it stored the order as already confirmed
cake_order_confirmed(order_id, flavor, size, toppings, message, total_bch, payment_address) ==
    [order_id |-> order_id, order_type |-> "cake", status |-> "confirmed",
     flavor |-> flavor, size |-> size, toppings |-> toppings, message |-> message,
     product_id |-> None, product_options |-> None, shipping_address |-> None,
     design_url |-> None, gelato_product_uid |-> None,
     total_bch |-> total_bch, payment_address |-> payment_address,
     paid |-> FALSE, tx_id |-> None, gelato_order_id |-> None, tracking_url |-> None]

\* The dict create_cake_order builds.  Keys a dict does not have read as None,
\* as order.get(key) does in check_order.
cake_order(order_id, flavor, size, toppings, message, total_bch, payment_address) ==
    [order_id |-> order_id, order_type |-> "cake", status |-> "awaiting_payment",
     flavor |-> flavor, size |-> size, toppings |-> toppings, message |-> message,
     product_id |-> None, product_options |-> None, shipping_address |-> None,
     design_url |-> None, gelato_product_uid |-> None,
     total_bch |-> total_bch, payment_address |-> payment_address,
     paid |-> FALSE, tx_id |-> None, gelato_order_id |-> None, tracking_url |-> None]

\* The dict create_product_order builds.
product_order(order_id, product_id, product_options, shipping_address, total_bch, payment_address, design_url, gelato_product_uid) ==
    [order_id |-> order_id, order_type |-> "product", status |-> "awaiting_payment",
     flavor |-> None, size |-> None, toppings |-> None, message |-> None,
     product_id |-> product_id, product_options |-> product_options,
     shipping_address |-> shipping_address,
     design_url |-> design_url, gelato_product_uid |-> gelato_product_uid,
     total_bch |-> total_bch, payment_address |-> payment_address,
     paid |-> FALSE, tx_id |-> None, gelato_order_id |-> None, tracking_url |-> None]

\* _orders[order_id] = order: the new dict goes on the heap and the key points at it.
\* The key is whatever _gen_id drew; a dict already stored under it is replaced.
store_order(h, o, order) ==
    [heap |-> Append(h, order),
     orders |-> [o EXCEPT ![order.order_id] = Len(h) + 1]]

\* a lookup that falls back on some stored order when the key is absent
get_order_any(o, order_id) ==
    IF order_id \in DOMAIN o /\ o[order_id] # None THEN o[order_id]
    ELSE IF {o[i] : i \in DOMAIN o} \ {None} # {} THEN CHOOSE k \in {o[i] : i \in DOMAIN o} \ {None} : TRUE
    ELSE None

\* get_order: _orders.get(order_id), a heap reference or None
get_order(o, order_id) == IF order_id \in DOMAIN o THEN o[order_id] ELSE None

\* _orders.values()
stored(o) == {o[i] : i \in DOMAIN o} \ {None}

\* is_tx_used: any(o["tx_id"] == tx_id for o in _orders.values())
is_tx_used(h, o, tx_id) == \E k \in stored(o) : h[k].tx_id = tx_id

\* submit_payment on an id that is in the store: the heap after it
submit_payment(h, o, order_id, tx_id) ==
    IF get_order(o, order_id) = None THEN h
    ELSE [h EXCEPT ![o[order_id]] =
             [@ EXCEPT !.tx_id = tx_id, !.paid = TRUE, !.status = "confirmed"]]

\* update_gelato_info: the heap after it
update_gelato_info(h, o, order_id, gelato_order_id) ==
    IF get_order(o, order_id) = None THEN h
    ELSE [h EXCEPT ![o[order_id]] =
             [@ EXCEPT !.gelato_order_id = gelato_order_id, !.status = "fulfilling"]]

\* -------------------------------------------------------------- verifier
\* _TX_ID_PATTERN.match(tx_id)
tx_format_ok(tx_id) == tx_id \in WellFormedTx

\* int(expected_bch * SATS_PER_BCH): the amount is kept in 1e-6 BCH, and the
\* product is formed without leaving 32 bits
expected_sats(expected_bch) == expected_bch * (SATS_PER_BCH \div MICRO_PER_BCH)

\* What the ledger explorer may answer to GET <BLOCKCHAIR_URL>/<tx_id>:
\* the request fails, a non-200 status, 200 without the transaction, or 200 with
\* the transaction and its outputs.
Totals == {10000, 50000}
OutputValues == {expected_sats(10000) - 1} \cup {expected_sats(t) : t \in Totals}
Outputs ==
    [recipient : {"shop"}, value : OutputValues]
    \cup {[recipient |-> "other", value |-> expected_sats(50000)]}
OutputLists == {<<>>} \cup {<<a>> : a \in Outputs} \cup {<<a, b>> : a \in Outputs, b \in Outputs}
LedgerResponses ==
    {[net_ok |-> FALSE, status_code |-> None, found |-> FALSE, outputs |-> <<>>]}
    \cup {[net_ok |-> TRUE, status_code |-> 500, found |-> FALSE, outputs |-> <<>>]}
    \cup {[net_ok |-> TRUE, status_code |-> 200, found |-> FALSE, outputs |-> <<>>]}
    \cup {[net_ok |-> TRUE, status_code |-> 200, found |-> TRUE, outputs |-> os] : os \in OutputLists}

\* _strip_prefix(SHOP_BCH_ADDRESS): the configured address without its scheme
shop_addr == SHOP_BCH_ADDRESS

\* the loop with an amount check that wants more than the expected amount
RECURSIVE scan_outputs_strict(_, _)
scan_outputs_strict(outputs, sats) ==
    IF outputs = <<>> THEN [ok |-> FALSE, message |-> "no_payment_to_shop", actual |-> None]
    ELSE IF Head(outputs).recipient = shop_addr
         THEN IF Head(outputs).value > sats
              THEN [ok |-> TRUE, message |-> "verified", actual |-> None]
              ELSE [ok |-> FALSE, message |-> "insufficient", actual |-> Head(outputs).value]
         ELSE scan_outputs_strict(Tail(outputs), sats)

\* the loop over outputs: the first output paying the shop decides; `actual` is
\* the value the "insufficient" message reports as found
RECURSIVE scan_outputs(_, _)
scan_outputs(outputs, sats) ==
    IF outputs = <<>> THEN [ok |-> FALSE, message |-> "no_payment_to_shop", actual |-> None]
    ELSE IF Head(outputs).recipient = shop_addr
         THEN IF Head(outputs).value >= sats
              THEN [ok |-> TRUE, message |-> "verified", actual |-> None]
              ELSE [ok |-> FALSE, message |-> "insufficient", actual |-> Head(outputs).value]
         ELSE scan_outputs(Tail(outputs), sats)

\* verify_transaction once the ledger has answered with resp: (ok, message), the
\* message being its kind and the two amounts the "insufficient" text carries
verify_response(tx_id, expected_bch, resp) ==
    IF ~resp.net_ok THEN
        [ok |-> FALSE, message |-> "unavailable", expected |-> None, actual |-> None]
    ELSE IF resp.status_code # 200 THEN
        [ok |-> FALSE, message |-> "returned_an_error", expected |-> None, actual |-> None]
    ELSE IF ~resp.found THEN
        [ok |-> FALSE, message |-> "not_found", expected |-> None, actual |-> None]
    ELSE LET s == scan_outputs(resp.outputs, expected_sats(expected_bch)) IN
        [ok |-> s.ok, message |-> s.message,
         expected |-> IF s.message = "insufficient" THEN expected_bch ELSE None,
         actual |-> s.actual]

\* The transaction id as the string it is. _TX_ID_PATTERN is ^[0-9a-f]{64}$ and
\* is applied with match(): `$` matches at the end of the string and also just
\* before a newline that ends the string.
TxLen == 64
HexDigits == {"0", "1", "2", "3", "4", "5", "6", "7", "8", "9", "a", "b", "c", "d", "e", "f"}
NewLine == "\n"
tx_pattern_match(s) ==
    /\ Len(s) >= TxLen
    /\ \A i \in 1..TxLen : s[i] \in HexDigits
    /\ \/ Len(s) = TxLen
       \/ Len(s) = TxLen + 1 /\ s[TxLen + 1] = NewLine

\* verify_transaction(tx_id, expected_bch) on the string tx_id, resp being what
\* the ledger answers if it is asked: `requested` tells whether it was
verify_transaction(tx_id, expected_bch, resp) ==
    IF ~tx_pattern_match(tx_id)
    THEN [requested |-> FALSE,
          res |-> [ok |-> FALSE, message |-> "bad_format", expected |-> None, actual |-> None]]
    ELSE [requested |-> TRUE, res |-> verify_response(tx_id, expected_bch, resp)]

\* "unavailable" in message.lower()
says_unavailable(message) == message = "unavailable"

\* ------------------------------------------------------------ dispatcher
\* What the fulfillment upstream may answer to the order POST.
GelatoResponses ==
    {[net_ok |-> FALSE, status_code |-> None, id |-> None]}
    \cup {[net_ok |-> TRUE, status_code |-> 500, id |-> None]}
    \cup {[net_ok |-> TRUE, status_code |-> 201, id |-> g] : g \in GelatoIds}

\* place_gelato_order once the upstream has answered: the gelato id or None
gelato_result(resp) ==
    IF ~resp.net_ok THEN None
    ELSE IF resp.status_code \in {200, 201} THEN resp.id
    ELSE None

\* --------------------------------------------------------------- catalog
\* CATALOG_CONFIG[product_id]["agent_options"].keys(), {} standing for "no such product"
agent_options(product_id) ==
    CASE product_id = "t-shirt" -> {"size", "color"}
      [] product_id = "mug" -> {"size"}
      [] product_id = "framed-print" -> {"size", "orientation"}
      [] OTHER -> {}

\* products.get_product(product_id) is not None
get_product(product_id) == agent_options(product_id) # {}

\* a validation that does not look for option names the product does not have
validate_options_no_extras(product_id, options) ==
    /\ get_product(product_id)
    /\ \A k \in agent_options(product_id) : k \in DOMAIN options

\* validate_options: TRUE when it returns no error (None)
validate_options(product_id, options) ==
    /\ get_product(product_id)                                   \* else "Unknown product"
    /\ \A k \in agent_options(product_id) : k \in DOMAIN options  \* else "Missing required option"
    /\ \A k \in DOMAIN options : k \in agent_options(product_id)  \* else "Unknown option"

\* -------------------------------------------------------- pricing engine
\* The cache and the lookups of one product variant (a product id with its
\* option choices): the catalog search for its uid, the cost of that uid and
\* the exchange rate, each under its own key and TTL.
CATALOG_TTL == 3600
PRICE_TTL == 1800
RATE_TTL == 300
margin_pct == 40

CacheKeys == {"uid", "price_usd", "bch_rate"}

ttl_of(key) ==
    CASE key = "uid" -> CATALOG_TTL
      [] key = "price_usd" -> PRICE_TTL
      [] OTHER -> RATE_TTL

\* _fetch_product_price_usd returning None (a cost is a number of cents)
NoCost == -1

\* What a fetch may return when it does not raise: the uid of the first match
\* or None, the cost or None, the exchange rate (USD per BCH), which is
\* whatever number the rate service's answer holds, 0 included.
FetchValues(key) ==
    CASE key = "uid" -> {None, 1}
      [] key = "price_usd" -> {NoCost, 1000}
      [] OTHER -> {0, 400}

\* how an awaited fetch_fn() ends: it raises, or returns d
FetchOutcomes(key) ==
    {[ok |-> FALSE, d |-> None]} \cup {[ok |-> TRUE, d |-> v] : v \in FetchValues(key)}

\* the same, and a cost of 0: float(prices[0].get("price", 0)) on a price
\* record without a price
FetchOutcomesWithFree(key) ==
    FetchOutcomes(key) \cup (IF key = "price_usd" THEN {[ok |-> TRUE, d |-> 0]} ELSE {})

\* _cache.get(key) on a key that is absent, and the empty cache
NoEntry == [has |-> FALSE, d |-> None, t |-> 0]
EmptyCache == [k \in CacheKeys |-> NoEntry]

\* a freshness test that never holds
fresh_never(entry, ttl, t) == FALSE

\* entry and (time.time() - entry["t"]) < ttl
fresh(entry, ttl, t) == entry.has /\ (t - entry.t) < ttl

\* the cache after a fetch whose failure renews the timestamp of the entry
cache_after_fetch_touch(c, key, out, t) ==
    IF out.ok THEN [c EXCEPT ![key] = [has |-> TRUE, d |-> out.d, t |-> t]]
    ELSE IF c[key].has THEN [c EXCEPT ![key].t = t]
    ELSE c

\* the cache when a fetch stores its data only under a key that has no entry
cache_after_fetch_keep_first(c, key, out, t) ==
    IF out.ok /\ ~c[key].has THEN [c EXCEPT ![key] = [has |-> TRUE, d |-> out.d, t |-> t]]
    ELSE c

\* _cache[key] = {"d": data, "t": time.time()}, reached only when fetch_fn returned
cache_after_fetch(c, key, out, t) ==
    IF out.ok THEN [c EXCEPT ![key] = [has |-> TRUE, d |-> out.d, t |-> t]] ELSE c

\* a return that never falls back to the stale entry
fetch_return_no_fallback(entry, out) ==
    IF out.ok THEN [raised |-> FALSE, stale |-> FALSE, d |-> out.d]
    ELSE [raised |-> TRUE, stale |-> FALSE, d |-> None]

\* _get_cached after its await: the data, the stale entry read before the
\* await (`stale`), or the exception again
fetch_return(entry, out) ==
    IF out.ok THEN [raised |-> FALSE, stale |-> FALSE, d |-> out.d]
    ELSE IF entry.has THEN [raised |-> FALSE, stale |-> TRUE, d |-> entry.d]
    ELSE [raised |-> TRUE, stale |-> FALSE, d |-> None]

\* f"{usd_cost * (1 + margin_pct / 100) / bch_rate:.6f}" in 1e-6 BCH, the cost
\* being in cents: the quotient rounded to the nearest unit
bch_price(usd_cost, bch_rate) ==
    (usd_cost * (100 + margin_pct) * 100 + bch_rate \div 2) \div bch_rate

\* A call of the pricing engine: which function (`kind`, and for a single lookup
\* its `key`), where it is (`pc`), the key and the entry _get_cached read before
\* the await it is in, the cost it holds, whether it has awaited a fetch, and
\* how it ended.
IdleCall ==
    [pc |-> "idle", kind |-> "", key |-> "", entry |-> NoEntry, usd |-> None,
     fetched |-> FALSE, outcome |-> "", result |-> None]

\* the call returns d (a lookup: d from the stale entry), returns None, raises:
\* its locals are gone
call_ends(call, outcome, d) ==
    [call EXCEPT !.pc = "done", !.key = IF call.kind = "lookup" THEN @ ELSE "",
                 !.entry = NoEntry, !.usd = None, !.outcome = outcome, !.result = d]
call_returns(call, d) == call_ends(call, "value", d)
call_returns_stale(call, d) == call_ends(call, "stale", d)
call_returns_none(call) == call_ends(call, "none", None)
call_raises(call) == call_ends(call, "raised", None)

\* usd_with_margin / bch_rate with the rate 0: ZeroDivisionError leaves the call
call_divides_by_zero(call) == call_ends(call, "zero_division", None)

\* _get_cached(key, ...) reads the entry, finds it absent or expired and awaits
\* fetch_fn(), holding the entry it read
call_awaits(call, key, c) ==
    [call EXCEPT !.pc = "fetch", !.key = key, !.entry = c[key], !.fetched = TRUE]

\* resolve_gelato_uid / get_bch_rate: one cached lookup, to its return or to its await
lookup_start(key, c, t) ==
    LET call == [IdleCall EXCEPT !.kind = "lookup", !.key = key] IN
    IF fresh(c[key], ttl_of(key), t) THEN call_returns(call, c[key].d)
    ELSE call_awaits(call, key, c)

\* get_product_bch_price from the point where the lookup of `key` has given d,
\* to its return or to the await of the next lookup
RECURSIVE price_continue(_, _, _, _, _)
RECURSIVE price_lookup(_, _, _, _)
price_continue(call, key, d, c, t) ==
    IF key = "uid" THEN
        IF d = None THEN call_returns_none(call)                 \* if not uid
        ELSE price_lookup(call, "price_usd", c, t)
    ELSE IF key = "price_usd" THEN
        IF d = NoCost THEN call_returns_none(call)               \* if usd_cost is None
        ELSE price_lookup([call EXCEPT !.usd = d], "bch_rate", c, t)
    ELSE IF d = 0 THEN call_divides_by_zero(call)
    ELSE call_returns(call, bch_price(call.usd, d))

\* get_product_bch_price at one of its three cached lookups
price_lookup(call, key, c, t) ==
    IF fresh(c[key], ttl_of(key), t)
    THEN price_continue(call, key, c[key].d, c, t)
    ELSE call_awaits(call, key, c)

\* get_product_bch_price(product_id) from its start
price_start(product_id, c, t) ==
    LET call == [IdleCall EXCEPT !.kind = "price"] IN
    IF ~get_product(product_id) THEN call_returns_none(call)     \* if not cfg
    ELSE price_lookup(call, "uid", c, t)

\* ------------------------------------------------- product order handler
\* The place_product_order task: the pricing-engine call it is in (the fields of
\* a call, `stage` telling which of its two calls), the request, the uid that
\* resolve_gelato_uid returned, and its response: the status code, the detail
\* and, on 201, the total of the order.
IdleOrder ==
    [pc |-> "idle", stage |-> "", kind |-> "", key |-> "", entry |-> NoEntry, usd |-> None,
     fetched |-> FALSE, outcome |-> "", result |-> None,
     product_id |-> "", options |-> <<>>, gelato_uid |-> None,
     code |-> None, detail |-> "", total |-> None]

\* the handler answers: HTTPException(code, detail), the OrderResponse (201), or
\* the 500 the framework makes of an exception nobody caught
order_answers(task, code, detail, total) ==
    [task EXCEPT !.pc = "done", !.stage = "", !.kind = "", !.key = "", !.entry = NoEntry,
                 !.usd = None, !.fetched = FALSE, !.outcome = "", !.result = None,
                 !.code = code, !.detail = detail, !.total = total]

\* place_product_order once get_product_bch_price has returned or raised, or
\* awaits a fetch (`if not bch_price` lets every non-empty string through)
order_after_price(task) ==
    IF task.pc = "fetch" THEN task
    ELSE IF task.outcome \in {"raised", "zero_division"}
         THEN order_answers(task, 500, "internal_error", None)
    ELSE IF task.outcome = "none" THEN order_answers(task, 503, "price_unavailable", None)
    ELSE order_answers(task, 201, "created", task.result)

\* the handler going on to the price whatever resolve_gelato_uid returned
order_after_resolve_unchecked(task, uid, c, t) ==
    order_after_price(
        price_lookup([task EXCEPT !.stage = "price", !.kind = "price", !.gelato_uid = uid],
                     "uid", c, t))

\* place_product_order once resolve_gelato_uid has returned uid: the 422 of an
\* unavailable combination, or on into get_product_bch_price
order_after_resolve(task, uid, c, t) ==
    IF uid = None THEN order_answers([task EXCEPT !.gelato_uid = uid], 422, "not_available", None)
    ELSE order_after_price(
            price_lookup([task EXCEPT !.stage = "price", !.kind = "price", !.gelato_uid = uid],
                         "uid", c, t))

\* place_product_order from its start to its answer or its first await
order_start(product_id, options, c, t) ==
    LET task == [IdleOrder EXCEPT !.product_id = product_id, !.options = options] IN
    IF ~get_product(product_id) THEN order_answers(task, 422, "product_not_found", None)
    ELSE IF ~validate_options(product_id, options)
    THEN order_answers(task, 422, "invalid_options", None)
    ELSE IF fresh(c["uid"], ttl_of("uid"), t)
    THEN order_after_resolve(task, c["uid"].d, c, t)
    ELSE call_awaits([task EXCEPT !.stage = "resolve", !.kind = "lookup"], "uid", c)

\* place_product_order once the fetch it awaited has ended with ret
order_resume(task, ret, c, t) ==
    IF ret.raised THEN order_answers(task, 500, "internal_error", None)
    ELSE IF task.stage = "resolve" THEN order_after_resolve(task, ret.d, c, t)
    ELSE order_after_price(price_continue(task, task.key, ret.d, c, t))

\* ---------------------------------------------------------------- inputs
\* ------------------------------------------------------- option catalog
\* The mug: its one option, size, and the sizes the upstream catalog may have
\* variants of under the product's fixed filters.
MugSizes == {"11-oz", "15-oz"}
Catalogs == {{"11-oz"}, {"11-oz", "15-oz"}}

\* resolve_gelato_uid returning None, and the productUid of the mug of a size
NotFound == <<>>
product_uid(size) == <<"mug", size>>

\* _fetch_valid_options("mug") against the catalog `up`: the unique values of
\* the size attribute among the variants the search returns
fetch_valid_options(up) == up

\* the filters _get_gelato_uid builds: the choice of every option the product
\* has; a name the product does not have adds no filter
search_filters(product_id, agent_choices) ==
    [k \in DOMAIN agent_choices \cap agent_options(product_id) |-> agent_choices[k]]

\* _search_gelato_product against the catalog `up`: the first variant that
\* matches every filter, or None
search_gelato_product(up, filters) ==
    LET matching == {sz \in up : "size" \in DOMAIN filters => filters.size = sz} IN
    IF matching = {} THEN NotFound
    ELSE product_uid(IF "11-oz" \in matching THEN "11-oz" ELSE CHOOSE sz \in matching : TRUE)

\* the choices resolve_gelato_uid is called with
ResolveChoices ==
    {[size |-> "11-oz"], [size |-> "15-oz"], [size |-> "11-oz", material |-> "15-oz"]}

\* _cache without the entries of the mug's keys
NoOptionsEntry == [has |-> FALSE, d |-> {}, t |-> 0]
NoUidEntry == [has |-> FALSE, d |-> NotFound, t |-> 0]
EmptyCatalogCache ==
    [options |-> [p \in {"mug"} |-> NoOptionsEntry],
     uid |-> [ch \in ResolveChoices |-> NoUidEntry]]

\* ----------------------------------------------------------- product menu
\* How a call of get_product_bch_price(pid) ends: with a price string (here in
\* 1e-6 BCH, "0.000000" being 0), with None, or with an exception.
MenuPrices == {0, 3500}
PriceOutcomes ==
    {[kind |-> "returns", d |-> p] : p \in MenuPrices}
    \cup {[kind |-> "none", d |-> None], [kind |-> "raises", d |-> None]}

\* no price call of _build has ended yet
NoOutcome == [kind |-> "", d |-> None]

\* MenuItem(id, name, available, base_price_bch)
MenuItem(pid, available, base_price_bch) ==
    [id |-> pid, available |-> available, base_price_bch |-> base_price_bch]

\* the list get_products_for_menu returns without an API key
menu_without_key == [i \in 1..Len(CatalogProducts) |-> MenuItem(CatalogProducts[i], FALSE, 0)]

\* _build without its try/except: the exception of the price call leaves it
build_unguarded(pid, out) ==
    [raised |-> out.kind = "raises",
     item |-> MenuItem(pid, out.kind = "returns", IF out.kind = "returns" THEN out.d ELSE 0)]

\* _build(pid, cfg) once its price call has ended: an exception is caught and
\* reads as price None; available is "price is not None", and the price shown is
\* "price or 0.000000" (a price string is never empty, so it is shown as it is)
build(pid, out) ==
    LET price_is_none == out.kind # "returns" IN
    [raised |-> FALSE,
     item |-> MenuItem(pid, ~price_is_none, IF price_is_none THEN 0 ELSE out.d)]

CakeFlavors == {"vanilla", "durian"}
CakeSizes == {"small"}
CakeToppings == {<<"sprinkles">>}
ProductIds == {"t-shirt", "hat"}
ProductOptions == {[size |-> "M", color |-> "white"], [size |-> "M"]}
CatalogUids == {None, 1}        \* what resolve_gelato_uid returned
BchPrices == {None, 50000}      \* what get_product_bch_price returned
Calls == 1..NumCalls
Jumps == {RATE_TTL - 1, CATALOG_TTL}     \* seconds between two steps of the tasks
LookupKeys == {"uid", "bch_rate"}       \* the lookups that are functions of their own

\* Arguments of direct calls of validate_options: a product id, configured or
\* not, and a dict from any of these option names to any of these values.
CalledProducts == {"t-shirt", "mug", "framed-print", "hat"}
OptionNames == {"size", "color", "orientation", "material"}
OptionValues == {"M", "XL"}
OptionDicts == UNION {[S -> OptionValues] : S \in SUBSET OptionNames}

\* Arguments of GET /menu/{category}?page=N: the categories and one that does
\* not exist, and the page numbers the framework lets through (ge=1).
ListedCategories == {"flavors", "sizes", "toppings", "products", "drinks"}
Pages == 1..MaxPage

\* Transaction id strings: 63, 64 and 65 characters, all "a" but for at most one
\* character, the first or the last, which is another hex digit, an uppercase
\* letter, a letter that is no hex digit, or a newline.
TxLengths == {TxLen - 1, TxLen, TxLen + 1}
AlteredChars == {"0", "f", "A", "g", NewLine}
TxStrings ==
    UNION {{[i \in 1..n |-> "a"]}
           \cup {[i \in 1..n |-> IF i = q THEN ch ELSE "a"] : q \in {1, n}, ch \in AlteredChars}
           : n \in TxLengths}

\* ----------------------------------------------------------------- state
\* a task slot with no request in it
IdleReq ==
    [pc |-> "idle", order_id |-> None, tx_id |-> None, expected |-> None, updated |-> None]

\* a response: the status code, the detail of an HTTPException, the status field
\* of a PaymentResponse (its other fields repeat the request and the stored total)
NoResponse == [code |-> None, detail |-> "", status |-> ""]

\* no verify_transaction call yet
NoCase ==
    [tx |-> <<>>, expected |-> None,
     resp |-> [net_ok |-> FALSE, status_code |-> None, found |-> FALSE, outputs |-> <<>>],
     requested |-> FALSE,
     res |-> [ok |-> FALSE, message |-> "", expected |-> None, actual |-> None],
     code |-> None]

\* no direct call yet
NoCall == [fn |-> ""]

\* get_products_for_menu not called
NoMenu == [pc |-> "idle", items |-> <<>>, called |-> {}, got |-> <<>>, raised |-> FALSE]

Init ==
    /\ heap = <<>>
    /\ orders = [i \in IdSpace |-> None]
    /\ api_key \in BOOLEAN
    /\ req = [r \in Reqs |-> IdleReq]
    /\ last = NoResponse
    /\ paidBy = <<>>
    /\ cache = EmptyCache
    /\ now = 0
    /\ ticks = 0
    /\ calls = [c \in Calls |-> IdleCall]
    /\ vcase = NoCase
    /\ ptask = IdleOrder
    /\ pcase = NoCall
    /\ menu = NoMenu
    /\ upstream = {"11-oz"}
    /\ ocache = EmptyCatalogCache

\* create_cake_order / create_product_order: the dict, under the id _gen_id drew, is stored
create_order(order) ==
    /\ heap' = store_order(heap, orders, order).heap
    /\ orders' = store_order(heap, orders, order).orders
    /\ paidBy' = Append(paidBy, <<>>)

\* POST /order
place_cake_order(flavor, size, toppings, message, new_id) ==
    /\ Len(heap) < MaxOrders
    /\ LET t == calculate_total(flavor, size, toppings) IN
         IF ~t.ok
         THEN UNCHANGED <<heap, orders, paidBy>>      \* 422
         ELSE create_order(cake_order(new_id, flavor, size, toppings, message,
                                      t.total, SHOP_BCH_ADDRESS))
    /\ UNCHANGED <<api_key, req, last>>

\* POST /order/product, uid and price being what the catalog and pricing engines returned
place_product_order(product_id, options, uid, price, new_id) ==
    /\ Len(heap) < MaxOrders
    /\ IF ~get_product(product_id) THEN
            UNCHANGED <<heap, orders, paidBy>>       \* 422
       ELSE IF ~validate_options(product_id, options) THEN
            UNCHANGED <<heap, orders, paidBy>>       \* 422
       ELSE IF uid = None THEN
            UNCHANGED <<heap, orders, paidBy>>       \* 422
       ELSE IF price = None THEN
            UNCHANGED <<heap, orders, paidBy>>       \* 503
       ELSE create_order(product_order(new_id, product_id, options, "shipping", price,
                                       SHOP_BCH_ADDRESS, "design", uid))
    /\ UNCHANGED <<api_key, req, last>>

\* ------------------------------------------------------------- pay_order
\* pay_order, had it left out the check of the paid flag
pay_precheck_no_paid_check(h, o, order_id, tx_id) ==
    IF get_order(o, order_id) = None THEN [code |-> 404, detail |-> "order_not_found"]
    ELSE IF is_tx_used(h, o, tx_id) THEN [code |-> 409, detail |-> "tx_used"]
    ELSE [code |-> None, detail |-> ""]

\* PUT /order/{order_id}/payment up to the call of verify_transaction:
\* the rejection raised there, or code None when the handler goes on.
pay_precheck(h, o, order_id, tx_id) ==
    IF get_order(o, order_id) = None THEN [code |-> 404, detail |-> "order_not_found"]
    ELSE IF h[get_order(o, order_id)].paid THEN [code |-> 409, detail |-> "already_paid"]
    ELSE IF is_tx_used(h, o, tx_id) THEN [code |-> 409, detail |-> "tx_used"]
    ELSE [code |-> None, detail |-> ""]

\* the status pay_order raises for a failed verification
\* a mapping that answers 402 whatever the message
verify_failed_code_402(message) == 402

verify_failed_code(message) == IF says_unavailable(message) THEN 503 ELSE 402

\* pay_order, had it marked the order paid before looking at the verification result
heap_after_verify_unchecked(h, o, order_id, tx_id, res) ==
    submit_payment(h, o, order_id, tx_id)

\* the heap after pay_order has looked at the verification result
heap_after_verify(h, o, order_id, tx_id, res) ==
    IF res.ok THEN submit_payment(h, o, order_id, tx_id) ELSE h

\* the heap after pay_order has looked at the dispatcher's result
heap_after_gelato(h, o, order_id, gelato_id) ==
    IF gelato_id # None THEN update_gelato_info(h, o, order_id, gelato_id) ELSE h

\* HTTPException(status_code, detail)
rejection(code, detail) == [code |-> code, detail |-> detail, status |-> ""]

\* PaymentResponse(order_id, status, tx_id, total_bch), read from the dict `updated`
payment_response(h, updated) ==
    [code |-> 200, detail |-> "paid", status |-> h[updated].status]

\* A request arrives and runs to its first suspension: the lookups and conflict
\* checks, then verify_transaction's format check, which answers without a
\* network call, and else the ledger request goes out.
PayStart(r, order_id, tx_id) ==
    /\ req[r].pc = "idle"
    /\ LET pre == pay_precheck(heap, orders, order_id, tx_id) IN
         IF pre.code # None
         THEN /\ last' = rejection(pre.code, pre.detail)
              /\ UNCHANGED req
         ELSE IF ~tx_format_ok(tx_id)
         THEN /\ last' = rejection(verify_failed_code("bad_format"), "bad_format")
              /\ UNCHANGED req
         ELSE /\ req' = [req EXCEPT ![r] =
                            [pc |-> "ledger", order_id |-> order_id, tx_id |-> tx_id,
                             expected |-> heap[get_order(orders, order_id)].total_bch,
                             updated |-> None]]
              /\ UNCHANGED last
    /\ UNCHANGED <<heap, orders, api_key, paidBy>>

\* The ledger answers: the rest of verify_transaction, then pay_order up to the
\* fulfillment request (which a cake order, and a shop without API key, never sends).
PayLedger(r, resp) ==
    /\ req[r].pc = "ledger"
    /\ LET res == verify_response(req[r].tx_id, req[r].expected, resp)
           h2 == heap_after_verify(heap, orders, req[r].order_id, req[r].tx_id, res)
           updated == get_order(orders, req[r].order_id)
       IN  /\ heap' = h2
           /\ IF ~res.ok
              THEN /\ last' = rejection(verify_failed_code(res.message), res.message)
                   /\ req' = [req EXCEPT ![r] = IdleReq]
                   /\ UNCHANGED paidBy
              ELSE IF h2[updated].order_type = "product" /\ api_key
              THEN /\ req' = [req EXCEPT ![r] = [@ EXCEPT !.pc = "gelato", !.updated = updated]]
                   /\ UNCHANGED <<last, paidBy>>
              ELSE /\ last' = payment_response(h2, updated)
                   /\ req' = [req EXCEPT ![r] = IdleReq]
                   /\ paidBy' = [paidBy EXCEPT ![updated] = Append(@, req[r].tx_id)]
    /\ UNCHANGED <<orders, api_key>>

\* The fulfillment upstream answers: the rest of place_gelato_order, then
\* pay_order to its return.
PayGelato(r, resp) ==
    /\ req[r].pc = "gelato"
    /\ LET h2 == heap_after_gelato(heap, orders, req[r].order_id, gelato_result(resp)) IN
           /\ heap' = h2
           /\ last' = payment_response(h2, req[r].updated)
           /\ req' = [req EXCEPT ![r] = IdleReq]
           /\ paidBy' = [paidBy EXCEPT ![req[r].updated] = Append(@, req[r].tx_id)]
    /\ UNCHANGED <<orders, api_key>>

\* ------------------------------------------------- pricing-engine calls
\* time passes between two steps of the tasks
Tick(j) ==
    /\ ticks < MaxTicks
    /\ now' = now + j
    /\ ticks' = ticks + 1
    /\ UNCHANGED <<cache, calls>>

\* resolve_gelato_uid(...) or get_bch_rate() is called: _get_cached runs to its
\* return or to its await
LookupCall(c, key) ==
    /\ calls[c].pc # "fetch"
    /\ calls' = [calls EXCEPT ![c] = lookup_start(key, cache, now)]
    /\ UNCHANGED <<cache, now, ticks>>

\* get_product_bch_price(product_id) is called and runs to its return or to its
\* first await
PriceCall(c, product_id) ==
    /\ calls[c].pc # "fetch"
    /\ calls' = [calls EXCEPT ![c] = price_start(product_id, cache, now)]
    /\ UNCHANGED <<cache, now, ticks>>

\* The awaited fetch ends: the rest of _get_cached, and for a price call the
\* rest of get_product_bch_price to its return or to its next await.
FetchDone(c, out) ==
    /\ calls[c].pc = "fetch"
    /\ LET key == calls[c].key
           c2 == cache_after_fetch(cache, key, out, now)
           ret == fetch_return(calls[c].entry, out)
       IN  /\ cache' = c2
           /\ calls' = [calls EXCEPT ![c] =
                  IF ret.raised THEN call_raises(@)
                  ELSE IF @.kind = "lookup" THEN
                       IF ret.stale THEN call_returns_stale(@, ret.d)
                       ELSE call_returns(@, ret.d)
                  ELSE price_continue(@, key, ret.d, c2, now)]
    /\ UNCHANGED <<now, ticks>>

\* ------------------------------------------------- place_product_order
\* create_product_order(...) when the handler has answered 201, under the id
\* _gen_id draws
order_created(task, new_id) ==
    IF task.pc = "done" /\ task.code = 201
    THEN create_order(product_order(new_id, task.product_id, task.options, "shipping",
                                    task.total, SHOP_BCH_ADDRESS, "design", task.gelato_uid))
    ELSE UNCHANGED <<heap, orders, paidBy>>

\* POST /order/product arrives and runs to its answer or to its first await
OrderStart(product_id, options, new_id) ==
    /\ ptask.pc # "fetch"
    /\ Len(heap) < MaxOrders
    /\ ptask' = order_start(product_id, options, cache, now)
    /\ order_created(ptask', new_id)
    /\ UNCHANGED <<cache, now, ticks>>

\* the fetch the handler awaits ends: the rest of _get_cached, then the handler
\* to its answer or to its next await
OrderFetchDone(out, new_id) ==
    /\ ptask.pc = "fetch"
    /\ LET c2 == cache_after_fetch(cache, ptask.key, out, now)
           ret == fetch_return(ptask.entry, out)
       IN  /\ cache' = c2
           /\ ptask' = order_resume(ptask, ret, c2, now)
    /\ order_created(ptask', new_id)
    /\ UNCHANGED <<now, ticks>>

\* ----------------------------------------------------------- direct calls
\* validate_options(product_id, options) is called
CallValidate(product_id, options) ==
    pcase' = [fn |-> "validate_options", product_id |-> product_id, options |-> options,
              ok |-> validate_options(product_id, options)]

\* GET /menu/{category}?page=N is answered
CallList(category, page) ==
    pcase' = [fn |-> "list_category_items", category |-> category, asked |-> page,
              code |-> list_category_items(category, page).code,
              body |-> list_category_items(category, page).body]

\* store.get_order(order_id) called directly; ret is the dict returned, or None
StoreGet(order_id) ==
    /\ pcase' = [fn |-> "get_order", order_id |-> order_id,
                 ret |-> get_order(orders, order_id)]
    /\ UNCHANGED orderVars

\* store.submit_payment(order_id, tx_id) called directly
StoreSubmit(order_id, tx_id) ==
    /\ heap' = submit_payment(heap, orders, order_id, tx_id)
    /\ pcase' = [fn |-> "submit_payment", order_id |-> order_id,
                 ret |-> get_order(orders, order_id)]
    /\ UNCHANGED <<orders, api_key, req, last, paidBy>>

\* store.update_gelato_info(order_id, gelato_order_id) called directly
StoreUpdate(order_id, gelato_order_id) ==
    /\ heap' = update_gelato_info(heap, orders, order_id, gelato_order_id)
    /\ pcase' = [fn |-> "update_gelato_info", order_id |-> order_id,
                 ret |-> get_order(orders, order_id)]
    /\ UNCHANGED <<orders, api_key, req, last, paidBy>>

\* get_products_for_menu() is called: without API key it returns its list at
\* once; with one, asyncio.gather starts _build for every configured product and
\* each calls get_product_bch_price
MenuStart ==
    /\ menu.pc # "gather"
    /\ menu' = IF ~api_key
               THEN [pc |-> "done", items |-> menu_without_key, called |-> {},
                     got |-> [i \in 1..Len(CatalogProducts) |-> NoOutcome], raised |-> FALSE]
               ELSE [pc |-> "gather",
                     items |-> [i \in 1..Len(CatalogProducts) |-> None],
                     called |-> {CatalogProducts[i] : i \in 1..Len(CatalogProducts)},
                     got |-> [i \in 1..Len(CatalogProducts) |-> NoOutcome], raised |-> FALSE]

\* the price call of the i-th _build ends and _build returns its item; when the
\* last one has, gather returns the items in the order of CATALOG_CONFIG.  An
\* exception out of a _build would end gather, and the function, at once.
MenuPriceDone(i, out) ==
    /\ menu.pc = "gather"
    /\ menu.got[i] = NoOutcome
    /\ LET b == build(CatalogProducts[i], out)
           got2 == [menu.got EXCEPT ![i] = out]
       IN  menu' = IF b.raised
                   THEN [menu EXCEPT !.pc = "done", !.got = got2, !.items = <<>>, !.raised = TRUE]
                   ELSE [menu EXCEPT !.got = got2, !.items[i] = b.item,
                                     !.pc = IF \A j \in DOMAIN got2 : got2[j] # NoOutcome
                                            THEN "done" ELSE "gather"]

\* ------------------------------------------------- option catalog calls
\* the upstream catalog gains or loses the 15-oz mug
CatalogChange(up) ==
    /\ up # upstream
    /\ upstream' = up
    /\ UNCHANGED ocache

\* get_product_options("mug"): _get_cached on the valid_options key, the search
\* requests answering (net_ok) from the catalog as it is, or failing
OptionsCall(net_ok) ==
    LET entry == ocache.options["mug"]
        out == [ok |-> net_ok, d |-> fetch_valid_options(upstream)]
        ret == IF fresh(entry, CATALOG_TTL, now) THEN [raised |-> FALSE, stale |-> FALSE, d |-> entry.d]
               ELSE fetch_return(entry, out)
    IN  /\ ocache' = IF fresh(entry, CATALOG_TTL, now) THEN ocache
                     ELSE [ocache EXCEPT !.options = cache_after_fetch(@, "mug", out, now)]
        /\ pcase' = [fn |-> "get_product_options", raised |-> ret.raised,
                     listed |-> ~ret.raised,
                     lists |-> IF ret.raised THEN {} ELSE ret.d,
                     choices |-> <<>>, ret |-> NotFound]
        /\ UNCHANGED upstream

\* resolve_gelato_uid("mug", agent_choices): _get_cached on the uid key of the
\* choices, the search request answering from the catalog as it is, or failing.
\* The record keeps the lists the latest get_product_options call returned.
ResolveCall(agent_choices, net_ok) ==
    LET entry == ocache.uid[agent_choices]
        out == [ok |-> net_ok,
                d |-> search_gelato_product(upstream, search_filters("mug", agent_choices))]
        ret == IF fresh(entry, CATALOG_TTL, now) THEN [raised |-> FALSE, stale |-> FALSE, d |-> entry.d]
               ELSE fetch_return(entry, out)
    IN  /\ pcase # NoCall
        /\ ocache' = IF fresh(entry, CATALOG_TTL, now) THEN ocache
                     ELSE [ocache EXCEPT !.uid = cache_after_fetch(@, agent_choices, out, now)]
        /\ pcase' = [fn |-> "resolve_gelato_uid", raised |-> ret.raised,
                     listed |-> pcase.listed, lists |-> pcase.lists,
                     choices |-> agent_choices,
                     ret |-> IF ret.raised THEN NotFound ELSE ret.d]
        /\ UNCHANGED upstream

\* ------------------------------------------------- verify_transaction call
\* verify_transaction(tx_id, expected_bch) with the ledger answering resp, and
\* the status code pay_order answers with
Verify(tx_id, expected_bch, resp) ==
    LET v == verify_transaction(tx_id, expected_bch, resp) IN
    vcase' = [tx |-> tx_id, expected |-> expected_bch, resp |-> resp,
              requested |-> v.requested, res |-> v.res,
              code |-> IF v.res.ok THEN 200 ELSE verify_failed_code(v.res.message)]

\* ------------------------------------------------------------ next-state
CakeOrder ==
    /\ \E f \in CakeFlavors, sz \in CakeSizes, tp \in CakeToppings, id \in IdSpace :
          place_cake_order(f, sz, tp, "", id)
    /\ UNCHANGED <<cacheVars, verifyVars, productVars, callVars, menuVars, catalogVars>>

ProductOrder ==
    /\ \E p \in ProductIds, op \in ProductOptions, u \in CatalogUids, b \in BchPrices,
          id \in IdSpace :
          place_product_order(p, op, u, b, id)
    /\ UNCHANGED <<cacheVars, verifyVars, productVars, callVars, menuVars, catalogVars>>

Start ==
    /\ \E r \in Reqs, id \in IdSpace, tx \in TxIds : PayStart(r, id, tx)
    /\ UNCHANGED <<cacheVars, verifyVars, productVars, callVars, menuVars, catalogVars>>

Ledger ==
    /\ \E r \in Reqs, resp \in LedgerResponses : PayLedger(r, resp)
    /\ UNCHANGED <<cacheVars, verifyVars, productVars, callVars, menuVars, catalogVars>>

Gelato ==
    /\ \E r \in Reqs, resp \in GelatoResponses : PayGelato(r, resp)
    /\ UNCHANGED <<cacheVars, verifyVars, productVars, callVars, menuVars, catalogVars>>

Next == CakeOrder \/ ProductOrder \/ Start \/ Ledger \/ Gelato

Spec == Init /\ [][Next]_vars

\* The product orders alone, with the event loop's scheduling: a request that
\* awaits an upstream answer is resumed (httpx gives up after its timeout at the
\* latest).
NextLive == ProductOrder \/ Start \/ Ledger \/ Gelato

SpecLive == Init /\ [][NextLive]_vars /\ WF_vars(Ledger) /\ WF_vars(Gelato)

\* The pricing engine on its own: the store holds no order.
InitCache == Init /\ api_key

Clock ==
    /\ \E j \in Jumps : Tick(j)
    /\ UNCHANGED <<orderVars, verifyVars, productVars, callVars, menuVars, catalogVars>>

Lookup ==
    /\ \E c \in Calls, key \in LookupKeys : LookupCall(c, key)
    /\ UNCHANGED <<orderVars, verifyVars, productVars, callVars, menuVars, catalogVars>>

Price ==
    /\ \E c \in Calls, p \in ProductIds : PriceCall(c, p)
    /\ UNCHANGED <<orderVars, verifyVars, productVars, callVars, menuVars, catalogVars>>

Fetch ==
    /\ \E c \in Calls : \E out \in FetchOutcomes(calls[c].key) : FetchDone(c, out)
    /\ UNCHANGED <<orderVars, verifyVars, productVars, callVars, menuVars, catalogVars>>

NextCache == Clock \/ Lookup \/ Price \/ Fetch

SpecCache == InitCache /\ [][NextCache]_vars

\* The product order handler with the pricing engine behind it: one request
\* after the other, the clock advancing in between.
InitProduct == Init /\ api_key

ProductClock ==
    /\ \E j \in Jumps : Tick(j)
    /\ UNCHANGED <<orderVars, verifyVars, productVars, callVars, menuVars, catalogVars>>

ProductRequest ==
    /\ \E p \in ProductIds, op \in ProductOptions, id \in IdSpace : OrderStart(p, op, id)
    /\ UNCHANGED <<api_key, req, last, calls, verifyVars, callVars, menuVars, catalogVars>>

ProductFetch ==
    /\ \E out \in FetchOutcomesWithFree(ptask.key), id \in IdSpace : OrderFetchDone(out, id)
    /\ UNCHANGED <<api_key, req, last, calls, verifyVars, callVars, menuVars, catalogVars>>

NextProduct == ProductClock \/ ProductRequest \/ ProductFetch

SpecProduct == InitProduct /\ [][NextProduct]_vars

\* The functions of the catalog, the menu and the store called directly, in any
\* order and with any arguments.
InitCalls == Init /\ api_key

Validate ==
    /\ \E p \in CalledProducts, op \in OptionDicts : CallValidate(p, op)
    /\ UNCHANGED <<orderVars, cacheVars, verifyVars, productVars, menuVars, catalogVars>>

List ==
    /\ \E c \in ListedCategories, n \in Pages : CallList(c, n)
    /\ UNCHANGED <<orderVars, cacheVars, verifyVars, productVars, menuVars, catalogVars>>

NextCalls == Validate \/ List

SpecCalls == InitCalls /\ [][NextCalls]_vars

\* The order store on its own: orders are created and the three functions that
\* take an order id are called with any id, stored or not.
InitStore == Init /\ api_key

Get ==
    /\ \E id \in IdSpace : StoreGet(id)
    /\ UNCHANGED <<cacheVars, verifyVars, productVars, menuVars, catalogVars>>

Submit ==
    /\ \E id \in IdSpace, tx \in WellFormedTx : StoreSubmit(id, tx)
    /\ UNCHANGED <<cacheVars, verifyVars, productVars, menuVars, catalogVars>>

Update ==
    /\ \E id \in IdSpace, g \in GelatoIds : StoreUpdate(id, g)
    /\ UNCHANGED <<cacheVars, verifyVars, productVars, menuVars, catalogVars>>

NextStore == CakeOrder \/ ProductOrder \/ Get \/ Submit \/ Update

SpecStore == InitStore /\ [][NextStore]_vars

\* The product menu on its own, in a shop with and in one without API key.
InitMenu == Init

MenuCall ==
    /\ MenuStart
    /\ UNCHANGED <<orderVars, cacheVars, verifyVars, productVars, callVars, catalogVars>>

MenuPrice ==
    /\ \E i \in 1..Len(CatalogProducts), out \in PriceOutcomes : MenuPriceDone(i, out)
    /\ UNCHANGED <<orderVars, cacheVars, verifyVars, productVars, callVars, catalogVars>>

NextMenu == MenuCall \/ MenuPrice

SpecMenu == InitMenu /\ [][NextMenu]_vars

\* The option catalog of one product: the listing of its valid options and the
\* resolution of choices, against an upstream catalog that changes, as time
\* passes.  Each call runs to its return in one step.
InitCatalog == Init /\ api_key

CatalogClock ==
    /\ Tick(CATALOG_TTL)
    /\ UNCHANGED <<orderVars, verifyVars, productVars, callVars, menuVars, catalogVars>>

Change ==
    /\ \E up \in Catalogs : CatalogChange(up)
    /\ UNCHANGED <<orderVars, cacheVars, verifyVars, productVars, callVars, menuVars>>

Options ==
    /\ \E ok \in BOOLEAN : OptionsCall(ok)
    /\ UNCHANGED <<orderVars, cacheVars, verifyVars, productVars, menuVars>>

Resolve ==
    /\ \E ch \in ResolveChoices, ok \in BOOLEAN : ResolveCall(ch, ok)
    /\ UNCHANGED <<orderVars, cacheVars, verifyVars, productVars, menuVars>>

NextCatalog == CatalogClock \/ Change \/ Options \/ Resolve

SpecCatalog == InitCatalog /\ [][NextCatalog]_vars

\* The payment verifier on its own: one call, with any arguments and any answer
\* of the ledger.
InitVerify == Init /\ api_key

VerifyCall ==
    /\ vcase = NoCase
    /\ \E tx \in TxStrings, e \in Totals, resp \in LedgerResponses : Verify(tx, e, resp)
    /\ UNCHANGED <<orderVars, cacheVars, productVars, callVars, menuVars, catalogVars>>

NextVerify == VerifyCall

SpecVerify == InitVerify /\ [][NextVerify]_vars

\* ---------------------------------------------------------------- claims
Objects == 1..Len(heap)

\* the tx ids for which a pay_order call on dict k has returned success
AcceptedTx(k) == {paidBy[k][i] : i \in 1..Len(paidBy[k])}

\* the ledger has no such transaction
AbsentResponse == [net_ok |-> TRUE, status_code |-> 200, found |-> FALSE, outputs |-> <<>>]

StatusRank(st) ==
    CASE st = "awaiting_payment" -> 0
      [] st = "confirmed" -> 1
      [] st = "fulfilling" -> 2
      [] st = "shipped" -> 3
      [] OTHER -> 4

\* C1: in every reachable state no two distinct stored orders hold the same
\* non-null tx_id.
C1_TxIdUnique ==
    \A a \in stored(orders), b \in stored(orders) :
        (a # b /\ heap[a].tx_id # None) => heap[a].tx_id # heap[b].tx_id

\* C2: for every order, at most one pay_order call ever returns success.
C2_OneAcceptedPaymentPerOrder ==
    \A k \in Objects : Len(paidBy[k]) <= 1

\* C3: once an order's tx_id is non-null, no step changes it.
C3_TxIdWrittenOnce ==
    [][\A k \in Objects : heap[k].tx_id # None => heap'[k].tx_id = heap[k].tx_id]_vars

\* C4: a pay_order call for an order on which a payment submission has already
\* completed successfully is rejected with 409 "already paid", whatever the tx id,
\* and sends no ledger request (no task moves on to the ledger).
C4_PaidOrderRejectedWithoutLookup ==
    [][\A r \in Reqs, id \in IdSpace, tx \in TxIds :
          ( /\ PayStart(r, id, tx)
            /\ get_order(orders, id) # None
            /\ paidBy[get_order(orders, id)] # <<>> )
          => /\ last' = rejection(409, "already_paid")
             /\ UNCHANGED <<req, heap, orders>>]_vars

\* C4 happens: the latest response is the 409 of a paid order, and an order with
\* an accepted payment is in the store.
C4_Witness ==
    /\ last = rejection(409, "already_paid")
    /\ \E k \in stored(orders) : paidBy[k] # <<>> /\ heap[k].paid

\* C5: once pay_order(A, T) has returned success, a pay_order(B, T) that starts
\* for a different, unpaid order B is rejected with 409 without a ledger request,
\* and B stays unpaid with a null tx_id.
C5_UsedTxRejectedForOtherOrder ==
    [][\A r \in Reqs, id \in IdSpace, tx \in TxIds :
          ( /\ PayStart(r, id, tx)
            /\ get_order(orders, id) # None
            /\ ~heap[get_order(orders, id)].paid
            /\ \E a \in Objects : a # get_order(orders, id) /\ tx \in AcceptedTx(a) )
          => /\ last'.code = 409
             /\ UNCHANGED <<req, heap, orders>>]_vars

\* C6: a pay_order call that ends in a rejection leaves every order record as it
\* was: no step of it before the ledger answers writes to the store, and the
\* step that rejects after the ledger's answer writes nothing; a well-formed tx id
\* the ledger does not have is rejected 402 "not found".
C6_RejectionLeavesOrdersUnchanged ==
    [][\A r \in Reqs :
          /\ (\E id \in IdSpace, tx \in TxIds : PayStart(r, id, tx))
                => UNCHANGED <<heap, orders>>
          /\ (req[r].pc = "ledger" /\ req'[r].pc = "idle" /\ last'.code # 200)
                => /\ UNCHANGED <<heap, orders>>
                   /\ last'.code \in {402, 503}
          /\ PayLedger(r, AbsentResponse)
                => /\ last' = rejection(402, "not_found")
                   /\ UNCHANGED <<heap, orders>>]_vars

\* C6 happens: the latest response is the 402 "not found", and the store holds
\* an order that is still unpaid, with no tx id, awaiting payment.
C6_Witness ==
    /\ last = rejection(402, "not_found")
    /\ \E k \in stored(orders) :
          ~heap[k].paid /\ heap[k].tx_id = None /\ heap[k].status = "awaiting_payment"

\* C7: an order's status never moves backwards along
\* awaiting_payment -> confirmed -> fulfilling -> shipped.
C7_StatusOnlyForward ==
    [][\A k \in Objects : StatusRank(heap'[k].status) >= StatusRank(heap[k].status)]_vars

\* C8: every order creation yields a record with status awaiting_payment,
\* paid = false, tx_id = null, no fulfillment id and no tracking URL, stored under
\* the identifier it carries.
C8_NewOrderAwaitsPayment ==
    [][Len(heap') > Len(heap) =>
          LET o == heap'[Len(heap')] IN
              /\ o.order_type \in {"cake", "product"}
              /\ o.status = "awaiting_payment"
              /\ o.paid = FALSE
              /\ o.tx_id = None
              /\ o.gelato_order_id = None
              /\ o.tracking_url = None
              /\ orders'[o.order_id] = Len(heap')]_vars

\* C8 happens: a cake order and a product order, both as created, are in the store.
C8_Witness ==
    \E c \in stored(orders), p \in stored(orders) :
        /\ heap[c].order_type = "cake" /\ heap[p].order_type = "product"
        /\ heap[c].status = "awaiting_payment" /\ heap[p].status = "awaiting_payment"
        /\ orders[heap[c].order_id] = c /\ orders[heap[p].order_id] = p

\* C9: order creation never reuses an identifier: no stored order is replaced, and
\* the number of stored orders grows by exactly one.
C9_IdNeverReused ==
    [][Len(heap') > Len(heap) =>
          /\ \A i \in IdSpace : orders[i] # None => orders'[i] = orders[i]
          /\ Cardinality(stored(orders')) = Cardinality(stored(orders)) + 1]_vars

\* C10: orders are never deleted, and the fields fixed at creation never change.
C10_OrdersKeptAndFrame ==
    [][\A k \in Objects :
          /\ k \in stored(orders) => k \in stored(orders')
          /\ heap'[k].order_id = heap[k].order_id
          /\ heap'[k].order_type = heap[k].order_type
          /\ heap'[k].total_bch = heap[k].total_bch
          /\ heap'[k].payment_address = heap[k].payment_address
          /\ heap'[k].flavor = heap[k].flavor
          /\ heap'[k].size = heap[k].size
          /\ heap'[k].toppings = heap[k].toppings
          /\ heap'[k].message = heap[k].message
          /\ heap'[k].product_id = heap[k].product_id
          /\ heap'[k].product_options = heap[k].product_options
          /\ heap'[k].shipping_address = heap[k].shipping_address
          /\ heap'[k].design_url = heap[k].design_url
          /\ heap'[k].gelato_product_uid = heap[k].gelato_product_uid]_vars


\* C11: in every reachable state a cake order's status is awaiting_payment or
\* confirmed, and a product order's status is awaiting_payment, confirmed,
\* fulfilling or shipped.
C11_StatusVocabulary ==
    \A k \in Objects :
        IF heap[k].order_type = "cake"
        THEN heap[k].status \in {"awaiting_payment", "confirmed"}
        ELSE heap[k].status \in {"awaiting_payment", "confirmed", "fulfilling", "shipped"}

\* the fetch that raised
FetchFailed == [ok |-> FALSE, d |-> None]

\* C12: a cached lookup called while the entry of its key is younger than the
\* TTL (less than ttl after the successful fetch that stored it) issues no
\* upstream fetch and returns the stored value, leaving the cache as it is.
C12_FreshEntryServedWithoutFetch ==
    [][\A c \in Calls, key \in LookupKeys :
         (LookupCall(c, key) /\ cache[key].has /\ now - cache[key].t < ttl_of(key))
           => /\ calls'[c].pc = "done"
              /\ calls'[c].outcome = "value"
              /\ calls'[c].result = cache[key].d
              /\ ~calls'[c].fetched
              /\ cache' = cache]_vars

\* a lookup has returned the stored value of a fresh entry without a fetch
C12_Witness ==
    \E c \in Calls :
        /\ calls[c].pc = "done" /\ calls[c].kind = "lookup"
        /\ calls[c].outcome = "value" /\ ~calls[c].fetched
        /\ cache[calls[c].key].has
        /\ now - cache[calls[c].key].t < ttl_of(calls[c].key)
        /\ calls[c].result = cache[calls[c].key].d

\* C13: when a lookup found an entry of age >= ttl and its refetch fails, it
\* returns the value of that entry, the cache (value and timestamp) is left
\* untouched, and the entry, if still the one the call read, is still expired,
\* so that the next call for the key refetches.
C13_FailedRefetchServesStale ==
    [][\A c \in Calls :
         (FetchDone(c, FetchFailed) /\ calls[c].entry.has)
           => /\ cache' = cache
              /\ calls[c].kind = "lookup" =>
                    /\ calls'[c].pc = "done"
                    /\ calls'[c].outcome = "stale"
                    /\ calls'[c].result = calls[c].entry.d
              /\ cache[calls[c].key] = calls[c].entry =>
                    /\ now' - cache'[calls[c].key].t >= ttl_of(calls[c].key)
                    /\ lookup_start(calls[c].key, cache', now').pc = "fetch"]_vars

\* a lookup has returned the value of an expired entry after its refetch failed,
\* and the entry is still there, expired
C13_Witness ==
    \E c \in Calls :
        /\ calls[c].pc = "done" /\ calls[c].kind = "lookup"
        /\ calls[c].outcome = "stale"
        /\ cache[calls[c].key].has
        /\ calls[c].result = cache[calls[c].key].d
        /\ now - cache[calls[c].key].t >= ttl_of(calls[c].key)

\* C14: a cached lookup raises only when its fetch failed and it had read no
\* entry; an entry, once stored, stays; so a call started after a successful
\* fetch for its key (it reads an entry, fresh or not) never raises.
C14_FailureOnlyWithoutEntry ==
    [][/\ \A k \in CacheKeys : cache[k].has => cache'[k].has
       /\ \A c \in Calls, key \in LookupKeys :
            (LookupCall(c, key) /\ cache[key].has)
              => calls'[c].outcome # "raised"
                 /\ (calls'[c].pc = "fetch" => calls'[c].entry.has)
       /\ \A c \in Calls : \A out \in FetchOutcomes(calls[c].key) :
            FetchDone(c, out) =>
              /\ calls[c].entry.has => calls'[c].outcome # "raised"
              /\ (calls'[c].pc = "done" /\ calls'[c].outcome = "raised")
                    => ~out.ok /\ ~calls[c].entry.has]_vars

\* one lookup raised, there being no entry, and a later one for the same key,
\* whose fetch failed too, returned what a fetch in between had stored
C14_Witness ==
    \E c \in Calls, e \in Calls :
        /\ calls[c].pc = "done" /\ calls[c].kind = "lookup" /\ calls[c].outcome = "raised"
        /\ calls[e].pc = "done" /\ calls[e].kind = "lookup" /\ calls[e].outcome = "stale"
        /\ calls[e].key = calls[c].key

\* C15: get_product_bch_price never raises: it returns None when the catalog
\* resolution fails, when the cost is unavailable, or when the exchange-rate
\* fetch fails with no stale rate.
C15_PriceNeverRaises ==
    \A c \in Calls :
        (calls[c].kind = "price" /\ calls[c].pc = "done") => calls[c].outcome # "raised"

\* the ledger was asked and answered 200 with the transaction
LedgerFound ==
    /\ vcase.requested
    /\ vcase.resp.net_ok /\ vcase.resp.status_code = 200 /\ vcase.resp.found

\* the positions of the outputs that pay the shop address
ShopOutputs == {i \in 1..Len(vcase.resp.outputs) : vcase.resp.outputs[i].recipient = shop_addr}

\* C16: a transaction whose output to the shop has exactly the expected amount
\* in satoshis verifies; one satoshi less fails as insufficient, with a message
\* that reports the expected and the actual amount.
C16_ExactAmountVerifies ==
    (LedgerFound /\ Cardinality(ShopOutputs) = 1) =>
        LET v == vcase.resp.outputs[CHOOSE i \in ShopOutputs : TRUE].value
            e == expected_sats(vcase.expected)
        IN  /\ v = e => vcase.res.ok /\ vcase.code = 200
            /\ v = e - 1 =>
                  /\ ~vcase.res.ok
                  /\ vcase.res.message = "insufficient"
                  /\ vcase.res.expected = vcase.expected
                  /\ vcase.res.actual = v
                  /\ vcase.code = 402

\* verification has failed as insufficient on an output one satoshi short
C16_Witness ==
    /\ LedgerFound /\ Cardinality(ShopOutputs) = 1
    /\ vcase.resp.outputs[CHOOSE i \in ShopOutputs : TRUE].value = expected_sats(vcase.expected) - 1
    /\ vcase.res.message = "insufficient"

\* C17: the ledger is asked for exactly the transaction ids of 64 lowercase hex
\* characters; every other string (63 characters, 65 characters, an uppercase
\* letter) is rejected without a request.
C17_OnlyWellFormedReachLedger ==
    vcase.tx # <<>> =>
        (vcase.requested <=>
            (Len(vcase.tx) = TxLen /\ \A i \in 1..Len(vcase.tx) : vcase.tx[i] \in HexDigits))

\* C18: with several outputs paying the shop, verification succeeds if and only
\* if at least one of them alone carries the expected amount.
C18_AnySufficientOutputAccepted ==
    (LedgerFound /\ Cardinality(ShopOutputs) >= 2) =>
        (vcase.res.ok <=>
            \E i \in ShopOutputs : vcase.resp.outputs[i].value >= expected_sats(vcase.expected))

\* C19: a ledger request that fails gives "service unavailable" and 503; a
\* transaction the ledger does not know gives "not found" and 402; never the
\* other's code.
C19_UnavailableAndNotFoundKeptApart ==
    /\ (vcase.requested /\ ~vcase.resp.net_ok) =>
          ~vcase.res.ok /\ vcase.res.message = "unavailable" /\ vcase.code = 503
    /\ (vcase.requested /\ vcase.resp.net_ok /\ vcase.resp.status_code = 200
          /\ ~vcase.resp.found) =>
          ~vcase.res.ok /\ vcase.res.message = "not_found" /\ vcase.code = 402

\* the ledger request for a well-formed id has failed and 503 is the answer
C19_Witness ==
    /\ vcase.requested /\ Len(vcase.tx) = TxLen
    /\ ~vcase.resp.net_ok
    /\ vcase.code = 503

\* C20: a ledger answer with a status outside 2xx is surfaced as 503.
C20_LedgerErrorIsRetryable ==
    (vcase.requested /\ vcase.resp.net_ok /\ vcase.resp.status_code \notin 200..299) =>
        vcase.code = 503

\* the request names a configured product and exactly its option names
WellFormedOrder(product_id, options) ==
    /\ agent_options(product_id) # {}
    /\ DOMAIN options = agent_options(product_id)

\* C21: a product order request with the right option names whose combination
\* resolves to no catalog item (the search, fresh from the cache, fetched or
\* stale, gave None) is answered 422 "not available, try different options"
\* and creates no order.
C21_NoCatalogItemIs422 ==
    [][/\ \A p \in ProductIds, op \in ProductOptions, id \in IdSpace :
            (/\ OrderStart(p, op, id)
             /\ WellFormedOrder(p, op)
             /\ cache["uid"].has /\ now - cache["uid"].t < CATALOG_TTL
             /\ cache["uid"].d = None)
            => /\ ptask'.pc = "done" /\ ptask'.code = 422 /\ ptask'.detail = "not_available"
               /\ heap' = heap /\ orders' = orders
       /\ \A out \in FetchOutcomes("uid"), id \in IdSpace :
            (/\ OrderFetchDone(out, id)
             /\ ptask.stage = "resolve"
             /\ \/ out.ok /\ out.d = None
                \/ ~out.ok /\ ptask.entry.has /\ ptask.entry.d = None)
            => /\ ptask'.pc = "done" /\ ptask'.code = 422 /\ ptask'.detail = "not_available"
               /\ heap' = heap /\ orders' = orders]_vars

\* a request with the right option names has been answered 422 "not available"
C21_Witness ==
    /\ ptask.pc = "done" /\ ptask.code = 422 /\ ptask.detail = "not_available"
    /\ WellFormedOrder(ptask.product_id, ptask.options)
    /\ ptask.gelato_uid = None

\* C23: when resolve_gelato_uid has returned a uid, the price call the handler
\* makes immediately afterwards for the same product and options returns a price.
C23_ResolvedThenPriced ==
    (ptask.pc = "done" /\ ptask.gelato_uid # None) => ptask.code = 201

\* C25: every stored order has a strictly positive total.
C25_TotalPositive == \A k \in Objects : heap[k].total_bch > 0

\* C26: a product order request ends with 201, 422 or 503.
C26_StructuredOutcome == ptask.pc = "done" => ptask.code \in {201, 422, 503}

\* C22: for a configured product, validate_options returns no error if and
\* only if the option names supplied are exactly the product's configured
\* option names, and its result is the same for every choice of values.
C22_ValidateOptionsNamesOnly ==
    (pcase.fn = "validate_options" /\ agent_options(pcase.product_id) # {}) =>
        /\ pcase.ok <=> DOMAIN pcase.options = agent_options(pcase.product_id)
        /\ \A other \in [DOMAIN pcase.options -> OptionValues] :
              validate_options(pcase.product_id, other) = pcase.ok

\* validate_options has accepted, for a configured product, a dict of exactly
\* its option names
C22_Witness ==
    /\ pcase.fn = "validate_options" /\ pcase.ok
    /\ pcase.product_id = "framed-print"
    /\ DOMAIN pcase.options = {"size", "orientation"}

\* the items a category lists
Listed(category) == IF category = "products" THEN CatalogProducts ELSE CATEGORIES(category)

\* the number of pages of n items: the least number of pages that holds them, at least 1
PagesOf(n) == CHOOSE t \in 1..(n + 1) :
                 /\ t * ITEMS_PER_PAGE >= n
                 /\ (t = 1 \/ (t - 1) * ITEMS_PER_PAGE < n)

\* C28: for every category and every page N >= 1 the listing returns page
\* min(N, total_pages) with the items of that page (never empty, never an
\* error), and next is null exactly when the returned page is the last one.
C28_PageClampedToLast ==
    (pcase.fn = "list_category_items" /\ Listed(pcase.category) # <<>>) =>
        LET all == Listed(pcase.category)
            total == PagesOf(Len(all))
            pg == pcase.body.page
            first == (pg - 1) * ITEMS_PER_PAGE
        IN  /\ pcase.code = 200
            /\ pcase.body.total_pages = total
            /\ pg = Min(pcase.asked, total)
            /\ pcase.body.items # <<>>
            /\ Len(pcase.body.items) = Min(ITEMS_PER_PAGE, Len(all) - first)
            /\ \A i \in 1..Len(pcase.body.items) : pcase.body.items[i] = all[first + i]
            /\ pcase.body.next = None <=> pg = total
            /\ pcase.body.next # None => pcase.body.next = pg + 1

\* a page beyond the last has been asked for, and the last page came back
C28_Witness ==
    /\ pcase.fn = "list_category_items" /\ pcase.category = "toppings"
    /\ pcase.asked > pcase.body.total_pages
    /\ pcase.body.page = 2 /\ Len(pcase.body.items) = 3
    /\ pcase.body.next = None

\* C30: get_order, submit_payment and update_gelato_info, called with an id
\* that is not in the store, return None and leave every stored order and the
\* store's keys as they were.
C30_MissingIdIsNoOp ==
    [][\A id \in IdSpace :
          (/\ orders[id] = None
           /\ \/ StoreGet(id)
              \/ \E tx \in WellFormedTx : StoreSubmit(id, tx)
              \/ \E g \in GelatoIds : StoreUpdate(id, g))
          => (pcase'.ret = None /\ heap' = heap /\ orders' = orders)]_vars

\* submit_payment has returned None for an id that is absent while another
\* order is stored and still awaits its payment
C30_Witness ==
    /\ pcase.fn = "submit_payment" /\ pcase.ret = None
    /\ orders[pcase.order_id] = None
    /\ \E k \in stored(orders) : heap[k].status = "awaiting_payment" /\ ~heap[k].paid

\* C27: when the fulfillment placement fails after a verified payment (the
\* request fails, the answer is not 2xx, or there is no API key), the payment
\* request still succeeds and leaves the order paid, confirmed and without a
\* fulfillment id; and nothing retries: a request that starts later is turned
\* away before the ledger, the order being paid, so it can neither place the
\* fulfillment nor move the order to fulfilling.
C27_FailedFulfillmentNotRetried ==
    [][/\ \A r \in Reqs :
            (\/ \E resp \in GelatoResponses : gelato_result(resp) = None /\ PayGelato(r, resp)
             \/ /\ ~api_key
                /\ \E resp \in LedgerResponses :
                      /\ PayLedger(r, resp)
                      /\ verify_response(req[r].tx_id, req[r].expected, resp).ok
                      /\ heap[get_order(orders, req[r].order_id)].order_type = "product")
            => LET k == IF req[r].pc = "gelato" THEN req[r].updated
                        ELSE get_order(orders, req[r].order_id) IN
                 /\ last'.code = 200 /\ last'.status = "confirmed"
                 /\ heap'[k].paid /\ heap'[k].status = "confirmed"
                 /\ heap'[k].gelato_order_id = None
       /\ \A r \in Reqs :
            (req[r].pc = "idle" /\ req'[r].pc = "ledger")
            => ~heap[get_order(orders, req'[r].order_id)].paid]_vars

\* C29: get_products_for_menu never fails and returns exactly one item per
\* configured product.  Without API key every item is unavailable, priced
\* 0.000000, and no price call was made; with a key an item is available exactly
\* when its price call returned a price, which it then shows, and a price call
\* that returned None or raised gives an unavailable item priced 0.000000.
C29_MenuNeverFails ==
    menu.pc = "done" =>
        /\ ~menu.raised
        /\ Len(menu.items) = Len(CatalogProducts)
        /\ \A i \in 1..Len(CatalogProducts) :
              /\ menu.items[i].id = CatalogProducts[i]
              /\ ~api_key => /\ ~menu.items[i].available
                             /\ menu.items[i].base_price_bch = 0
                             /\ menu.called = {}
              /\ api_key => /\ menu.items[i].available <=> menu.got[i].kind = "returns"
                            /\ menu.items[i].available =>
                                   menu.items[i].base_price_bch = menu.got[i].d
                            /\ ~menu.items[i].available =>
                                   menu.items[i].base_price_bch = 0

\* the list has been returned although one price call raised and another
\* returned None, a third product being available
C29_Witness ==
    /\ menu.pc = "done" /\ api_key
    /\ \E i, j, k \in 1..Len(CatalogProducts) :
          /\ menu.got[i].kind = "raises" /\ ~menu.items[i].available
          /\ menu.got[j].kind = "none" /\ ~menu.items[j].available
          /\ menu.got[k].kind = "returns" /\ menu.items[k].available

\* C24: once get_product_options has returned the lists of a product, a
\* resolve_gelato_uid call whose choices contain a value that is in none of
\* those lists under its option name returns no product UID.
C24_AbsentValueNotFound ==
    (/\ pcase.fn = "resolve_gelato_uid" /\ pcase.listed /\ ~pcase.raised
     /\ \E k \in DOMAIN pcase.choices :
           pcase.choices[k] \notin (IF k = "size" THEN pcase.lists ELSE {}))
    => pcase.ret = NotFound

\* C31: the product order lifecycle ends in shipped: a product order that is in
\* fulfilling goes on to the status shipped.
C31_FulfillingReachesShipped ==
    \A k \in 1..MaxOrders :
        (k <= Len(heap) /\ heap[k].order_type = "product" /\ heap[k].status = "fulfilling")
        ~> (k <= Len(heap) /\ heap[k].status = "shipped")

\* the uid, the cost and the rate have each been fetched, and the entry of each
\* holds a value other than None
Warm ==
    /\ cache["uid"].has /\ cache["uid"].d # None
    /\ cache["price_usd"].has /\ cache["price_usd"].d # NoCost
    /\ cache["bch_rate"].has

\* the call awaits a fetch and holds an entry with a value other than None
HoldsValue(call) ==
    /\ call.pc = "fetch" /\ call.entry.has
    /\ call.key = "uid" => call.entry.d # None
    /\ call.key = "price_usd" => call.entry.d # NoCost

C33_SuccessfulPaymentOutcome ==
    [][\A r \in Reqs :
         /\ \A resp \in LedgerResponses :
              (PayLedger(r, resp) /\ req'[r].pc = "idle" /\ last'.code = 200)
              => LET k == get_order(orders, req[r].order_id) IN
                   /\ heap'[k].paid /\ heap'[k].tx_id = req[r].tx_id
                   /\ heap'[k].status = "confirmed" /\ heap'[k].gelato_order_id = None
                   /\ heap'[k].order_type = "cake" \/ ~api_key
         /\ \A resp \in LedgerResponses :
              (PayLedger(r, resp) /\ req'[r].pc = "gelato")
              => heap'[req'[r].updated].order_type = "product"
         /\ \A resp \in GelatoResponses :
              PayGelato(r, resp)
              => LET k == req[r].updated IN
                   /\ last'.code = 200
                   /\ heap'[k].paid /\ heap'[k].tx_id = req[r].tx_id
                   /\ gelato_result(resp) # None =>
                         /\ heap'[k].status = "fulfilling"
                         /\ heap'[k].gelato_order_id = gelato_result(resp)
                   /\ gelato_result(resp) = None =>
                         /\ heap'[k].status = "confirmed"
                         /\ heap'[k].gelato_order_id = None]_vars

\* C34: the fulfillment dispatcher is invoked at most once for a product order,
\* whatever the interleaving of the payment requests.  A request invokes it in
\* the step in which it marks the order paid, and paid is never reset: so each
\* invocation is for an order that was not paid until then.
C34_DispatchedAtMostOnce ==
    [][\A r \in Reqs :
         (req[r].pc = "ledger" /\ req'[r].pc = "gelato")
         => ~heap[req'[r].updated].paid]_vars

\* C35: for every stored order, paid is true exactly when tx_id is not None and
\* exactly when the status is not awaiting_payment.
C35_PaidIffTxIffStatus ==
    \A k \in stored(orders) :
        /\ heap[k].paid <=> heap[k].tx_id # None
        /\ heap[k].paid <=> heap[k].status # "awaiting_payment"

\* C36: an order becomes paid, and gets its tx_id, only in the step in which a
\* payment request has its ledger answer; the tx id of that request is well
\* formed, it is the one stored, and the verification of that answer against
\* the stored total of that very order returns ok.
C36_PaidOnlyWhenVerified ==
    [][\A k \in 1..Len(heap) :
         (heap'[k].paid # heap[k].paid \/ heap'[k].tx_id # heap[k].tx_id)
         => /\ \E r \in Reqs, resp \in LedgerResponses : PayLedger(r, resp)
            /\ \A r \in Reqs, resp \in LedgerResponses :
                  PayLedger(r, resp) =>
                     /\ tx_format_ok(req[r].tx_id)
                     /\ verify_response(req[r].tx_id, heap[k].total_bch, resp).ok
                     /\ heap'[k].paid /\ heap'[k].tx_id = req[r].tx_id]_vars

\* C37: a stored order in status fulfilling is a product order with a
\* gelato_order_id; a stored order with a gelato_order_id is paid; and a
\* request awaits the dispatcher only for an order it has marked paid.
C37_FulfillingHasGelatoIdAndIsPaid ==
    /\ \A k \in stored(orders) :
         /\ heap[k].status = "fulfilling"
            => heap[k].order_type = "product" /\ heap[k].gelato_order_id # None
         /\ heap[k].gelato_order_id # None => heap[k].paid
    /\ \A r \in Reqs : req[r].pc = "gelato" => heap[req[r].updated].paid

\* C38: a resolve_gelato_uid call made less than CATALOG_TTL after a search for
\* the same choices returned not-found keeps returning not-found and leaves
\* the cache as it is, no search answer reaching it, whether or not the
\* upstream catalog now holds a match and whether or not the network is up.
C38_NotFoundCachedLikeHit ==
    [][\A ch \in ResolveChoices, net_ok \in BOOLEAN :
         (/\ ResolveCall(ch, net_ok)
          /\ ocache.uid[ch].has /\ ocache.uid[ch].d = NotFound
          /\ now - ocache.uid[ch].t < CATALOG_TTL)
         => /\ pcase'.ret = NotFound /\ ~pcase'.raised
            /\ ocache' = ocache]_vars

\* a resolve call has returned not-found from a fresh not-found entry while
\* the upstream catalog holds a match for its choices
C38_Witness ==
    /\ pcase.fn = "resolve_gelato_uid" /\ ~pcase.raised /\ pcase.ret = NotFound
    /\ ocache.uid[pcase.choices].has /\ ocache.uid[pcase.choices].d = NotFound
    /\ now - ocache.uid[pcase.choices].t < CATALOG_TTL
    /\ search_gelato_product(upstream, search_filters("mug", pcase.choices)) # NotFound

\* C39: whichever calls await fetches for the same key at the same time, a
\* call whose own fetch succeeds returns the data of that fetch (a lookup
\* returns it as it is) and leaves it in the cache with the time of its
\* completion; the cache changes in no other step, so the entry is that of the
\* latest successful fetch to complete; and no stored timestamp decreases.
C39_ConcurrentFetchesLastWriterWins ==
    [][/\ \A c \in Calls : \A out \in FetchOutcomes(calls[c].key) :
            (FetchDone(c, out) /\ out.ok)
            => /\ cache'[calls[c].key] = [has |-> TRUE, d |-> out.d, t |-> now]
               /\ calls[c].kind = "lookup" =>
                     /\ calls'[c].pc = "done" /\ calls'[c].outcome = "value"
                     /\ calls'[c].result = out.d
       /\ cache' # cache =>
            \E c \in Calls : \E out \in FetchOutcomes(calls[c].key) :
                /\ FetchDone(c, out) /\ out.ok
                /\ cache' = [cache EXCEPT ![calls[c].key] =
                                [has |-> TRUE, d |-> out.d, t |-> now]]
       /\ \A k \in CacheKeys : cache'[k].t >= cache[k].t]_vars

\* two lookups of one key have both fetched at the same time (no time has
\* passed, so neither found the other's entry fresh), each has returned the
\* data of its own fetch, the two differ, and the cache holds one of them
C39_Witness ==
    /\ ticks = 0
    /\ \E c1, c2 \in Calls :
         /\ c1 # c2 /\ calls[c1].key = calls[c2].key
         /\ \A c \in {c1, c2} :
              /\ calls[c].pc = "done" /\ calls[c].kind = "lookup"
              /\ calls[c].fetched /\ calls[c].outcome = "value"
         /\ calls[c1].result # calls[c2].result
         /\ cache[calls[c1].key] = [has |-> TRUE, d |-> calls[c2].result, t |-> now]

\* C40: a lookup that falls back to stale data because its own refetch failed
\* returns the value the cache holds for its key at the moment it returns.
C40_StaleFallbackReturnsCurrentEntry ==
    [][\A c \in Calls :
         (FetchDone(c, FetchFailed) /\ calls[c].entry.has /\ calls[c].kind = "lookup")
         => calls'[c].result = cache'[calls[c].key].d]_vars

====
